---- MODULE Spec2Model ----
(***************************************************************************)
(* Model of src/server.py: the FastAPI back end of the clicker game.  Every *)
(* handler opens its own psycopg2 connection, runs one or two SQL           *)
(* statements against the players table and closes the connection.  The     *)
(* only shared state is the table, so the model keeps the committed table,  *)
(* the row locks of open transactions and, per request, the handler's       *)
(* position and local variables.  Each SQL statement is one atomic step     *)
(* that reads the rows committed at that moment (READ COMMITTED, the        *)
(* PostgreSQL default psycopg2 runs under).  A statement that writes a row  *)
(* holds that row's lock until its transaction ends, and a write to a       *)
(* locked key waits.  created_at / updated_at and the values derived from   *)
(* them (status, last_active, the active-player counts) are left out: no    *)
(* handler branches on them.                                                *)
(***************************************************************************)
EXTENDS Integers, Sequences, FiniteSets, TLC

VARIABLES db, lock, req, lastWrite

vars == <<db, lock, req, lastWrite>>

\* ---------------------------------------------------------------- bounds
MaxMoney == 2
MaxClicks == 1
MaxLimit == 2

PlayerIds == {"alice", "bob"}
Reqs == {1, 2}
Money == (0 - 1)..MaxMoney
Clicks == 0..MaxClicks
Limits == 0..MaxLimit

\* ------------------------------------------------------------ PlayerData
\* The request body of save_player.  best_streak and the two arrays are
\* drawn together from two profiles to keep the payload set small.
Profiles ==
  { [best_streak |-> 0, owned_power_ups |-> <<>>, achievements |-> <<>>],
    [best_streak |-> 1, owned_power_ups |-> <<"double_tap">>,
     achievements |-> <<"first_click">>] }

PlayerData ==
  { [total_money |-> m, total_clicks |-> c, best_streak |-> f.best_streak,
     owned_power_ups |-> f.owned_power_ups, achievements |-> f.achievements] :
      m \in Money, c \in Clicks, f \in Profiles }

\* VALUES (%s, 0, 0, 0, '{}', '{}') of get_player's INSERT.
NewPlayerRow ==
  [total_money |-> 0, total_clicks |-> 0, best_streak |-> 0,
   owned_power_ups |-> <<>>, achievements |-> <<>>]

\* A reset that forgets best_streak in its SET clause.
ResetRowKeepsStreak(row) ==
  [row EXCEPT !.total_money = 0, !.total_clicks = 0,
              !.owned_power_ups = <<>>, !.achievements = <<>>]

\* SET clause of reset_player's UPDATE, applied to one stored row.
ResetRow(row) ==
  [row EXCEPT !.total_money = 0, !.total_clicks = 0, !.best_streak = 0,
              !.owned_power_ups = <<>>, !.achievements = <<>>]

\* A save that inserts without the ON CONFLICT clause taking effect.
UpsertAppends(rows, data) == Append(rows, data)

\* INSERT ... ON CONFLICT (player_id) DO UPDATE SET <all five fields>, applied
\* to the rows stored under the key: insert when there is none, overwrite
\* every field otherwise.
UpsertRows(rows, data) ==
  IF rows = <<>> THEN <<data>> ELSE [i \in DOMAIN rows |-> data]

\* UPDATE players SET ... WHERE player_id = %s: every row under the key.
ResetRows(rows) == [i \in DOMAIN rows |-> ResetRow(rows[i])]

\* ------------------------------------------------------ psycopg2 results
\* get_db_connection passes cursor_factory=RealDictCursor to psycopg2.connect,
\* so conn.cursor() is a RealDictCursor and every fetched row is a
\* RealDictRow: a dictionary from column NAMES to values, which psycopg2
\* documents as not allowing access by integer index.
None == [kind |-> "none"]
Unset == [kind |-> "unset"]
DictRow(cols, vals) == [kind |-> "row", cols |-> cols, vals |-> vals]

\* Python truthiness of what fetchone()/fetchall() element gives.
Truthy(x) == x.kind = "row" /\ Len(x.cols) > 0

\* The keys a subscript can be: an integer, as every handler writes it
\* (result[0]), or a column name.
IntKey(i) == [int |-> i]
NameKey(n) == [name |-> n]
Keys(row) == { NameKey(row.cols[j]) : j \in DOMAIN row.cols }

\* row[key]: a RealDictRow has only its column names as keys; any other
\* key raises KeyError.
HasKey(row, key) == key \in Keys(row)
GetItem(row, key) ==
  LET j == CHOOSE j \in DOMAIN row.cols : NameKey(row.cols[j]) = key
  IN  row.vals[j]

\* Value of a named column of a fetched row (what the SQL statement returned).
Column(row, n) == GetItem(row, NameKey(n))

\* A nullable SQL value (array_length of an empty array, SUM/MAX/AVG over no
\* rows): <<>> is NULL, <<v>> is the value v.
Null == <<>>
Some(v) == <<v>>
\* Python's "x or 0" on such a value.
OrZero(x) == IF x = Null \/ x[1] = 0 THEN 0 ELSE x[1]
\* Python's "x or []" on an array column (never NULL in rows this program
\* writes).
OrEmpty(a) == a

\* ---------------------------------------------------------- the table
\* db[p] holds the committed rows whose player_id is p, in insertion order.
Entries(table) ==
  UNION { { <<p, i>> : i \in DOMAIN table[p] } : p \in PlayerIds }

RowOf(table, e) == table[e[1]][e[2]]

\* WHERE total_money > 0
Positive(table) == { e \in Entries(table) : RowOf(table, e).total_money > 0 }

\* ORDER BY total_money DESC, total_clicks DESC: a sorts strictly before b.
Before(a, b) ==
  \/ a.total_money > b.total_money
  \/ a.total_money = b.total_money /\ a.total_clicks > b.total_clicks

\* The orders in which PostgreSQL may emit the positive-earnings rows: every
\* permutation that respects Before.  Rows equal in both sort keys are peers,
\* and the order of peers is unspecified and chosen per statement.
Orderings(table) ==
  LET S == Positive(table)
      n == Cardinality(S)
  IN  { s \in [1..n -> S] :
          /\ \A i, j \in 1..n : i # j => s[i] # s[j]
          /\ \A i, j \in 1..n :
               i < j => ~Before(RowOf(table, s[j]), RowOf(table, s[i])) }

Min(a, b) == IF a < b THEN a ELSE b

\* array_length(arr, 1): NULL for an empty array.
ArrayLength(a) == IF Len(a) = 0 THEN Null ELSE Some(Len(a))

PlayerCols ==
  <<"player_id", "total_money", "total_clicks", "best_streak",
    "owned_power_ups", "achievements">>

\* A players row as the SELECT / RETURNING list of get_player gives it.
PlayerRow(p, row) ==
  DictRow(PlayerCols,
          <<p, row.total_money, row.total_clicks, row.best_streak,
            row.owned_power_ups, row.achievements>>)

\* SELECT ... FROM players WHERE player_id = %s, then fetchone().
SelectPlayer(table, p) ==
  IF table[p] = <<>> THEN None ELSE PlayerRow(p, table[p][1])

LeaderboardCols ==
  <<"player_id", "total_money", "total_clicks", "best_streak",
    "achievement_count", "power_up_count">>

LeaderboardRow(table, e) ==
  LET row == RowOf(table, e)
  IN  DictRow(LeaderboardCols,
              <<e[1], row.total_money, row.total_clicks, row.best_streak,
                ArrayLength(row.achievements),
                ArrayLength(row.owned_power_ups)>>)

\* The leaderboard SELECT with LIMIT %s, then fetchall(): the results the
\* statement may give.
LeaderboardQuery(table, limit) ==
  { [i \in 1..Min(limit, Len(s)) |-> LeaderboardRow(table, s[i])] :
      s \in Orderings(table) }

\* SELECT COUNT(*) ... WHERE total_money > 0, then fetchone().
CountQuery(table, col) ==
  DictRow(<<col>>, <<Cardinality(Positive(table))>>)

\* The ranked_players CTE of get_player_rank, filtered on player_id, then
\* fetchone(): ROW_NUMBER() over one of the possible orders.
RankQuery(table, p) ==
  IF \E e \in Positive(table) : e[1] = p
  THEN { DictRow(<<"rank", "total_money">>,
                 <<i, RowOf(table, s[i]).total_money>>) :
           <<s, i>> \in { x \in Orderings(table) \X
                               (1..Cardinality(Positive(table))) :
                          x[1][x[2]][1] = p /\
                          \A k \in 1..(x[2] - 1) : x[1][k][1] # p } }
  ELSE { None }

\* SUM and MAX of one column over a set of rows, given as <<entry, value>>
\* pairs so that equal values of different rows are all counted.
RECURSIVE SumOf(_)
SumOf(P) ==
  IF P = {} THEN 0
  ELSE LET x == CHOOSE x \in P : TRUE
       IN  x[2] + SumOf(P \ {x})

MaxOf(P) == CHOOSE m \in { x[2] : x \in P } : \A x \in P : x[2] <= m

StatsCols ==
  <<"total_players", "total_money_earned", "total_clicks",
    "highest_earnings", "most_clicks", "best_streak_global", "avg_money",
    "avg_clicks">>

\* The aggregate SELECT of get_global_stats, then fetchone().  SUM, MAX and
\* AVG over no rows are NULL.  AVG is kept as the pair <<sum, count>>.
StatsQuery(table) ==
  LET S == Positive(table)
      money == { <<e, RowOf(table, e).total_money>> : e \in S }
      clicks == { <<e, RowOf(table, e).total_clicks>> : e \in S }
      streak == { <<e, RowOf(table, e).best_streak>> : e \in S }
      n == Cardinality(S)
  IN  IF S = {}
      THEN DictRow(StatsCols, <<Some(0), Null, Null, Null, Null, Null,
                                Null, Null>>)
      ELSE DictRow(StatsCols,
                   <<Some(n), Some(SumOf(money)), Some(SumOf(clicks)),
                     Some(MaxOf(money)), Some(MaxOf(clicks)),
                     Some(MaxOf(streak)), Some(<<SumOf(money), n>>),
                     Some(<<SumOf(clicks), n>>)>>)

\* int(avg or 0) on the Decimal AVG returns: truncation (values are >= 0).
IntOfAvg(x) == IF x = Null THEN 0 ELSE x[1][1] \div x[1][2]

\* ------------------------------------------------------------ responses
Ok(body) == [status |-> 200, detail |-> "", body |-> body]
HTTPException(status, detail) ==
  [status |-> status, detail |-> detail, body |-> None]
NoResponse == [status |-> 0, detail |-> "", body |-> None]

\* "except Exception as e: raise HTTPException(status_code=500, detail=str(e))",
\* the handler every operation wraps its try block in.  It catches the
\* HTTPException raised inside the block as well.
ExceptException(e) == HTTPException(500, e)

AllIntKeys(row, n) == \A i \in 0..(n - 1) : HasKey(row, IntKey(i))

\* PlayerResponse(player_id=result[0], ..., achievements=result[5] or []).
GetPlayerResponse(result) ==
  IF AllIntKeys(result, 6)
  THEN Ok([kind |-> "player",
           player_id |-> GetItem(result, IntKey(0)),
           total_money |-> GetItem(result, IntKey(1)),
           total_clicks |-> GetItem(result, IntKey(2)),
           best_streak |-> GetItem(result, IntKey(3)),
           owned_power_ups |-> OrEmpty(GetItem(result, IntKey(4))),
           achievements |-> OrEmpty(GetItem(result, IntKey(5)))])
  ELSE ExceptException("KeyError")

\* The enumerate loop of get_leaderboard over the fetched rows.
LeaderboardLoopOk(results) ==
  \A i \in DOMAIN results : AllIntKeys(results[i], 6)

LeaderboardLoop(results) ==
  [i \in DOMAIN results |->
     [rank |-> i,
      player_id |-> GetItem(results[i], IntKey(0)),
      total_money |-> GetItem(results[i], IntKey(1)),
      total_clicks |-> GetItem(results[i], IntKey(2)),
      best_streak |-> GetItem(results[i], IntKey(3)),
      achievement_count |-> OrZero(GetItem(results[i], IntKey(4))),
      power_up_count |-> OrZero(GetItem(results[i], IntKey(5)))]]

\* total_players = total_result[0] if total_result else 0, and the return.
LeaderboardResponse(results, total_result) ==
  IF Truthy(total_result) /\ ~HasKey(total_result, IntKey(0))
  THEN ExceptException("KeyError")
  ELSE Ok([kind |-> "leaderboard",
           leaderboard |-> LeaderboardLoop(results),
           total_players |-> IF Truthy(total_result)
                             THEN GetItem(total_result, IntKey(0)) ELSE 0])

\* The global_stats dictionary: int(stats[i] or 0) for every column.
StatsResponse(stats) ==
  IF AllIntKeys(stats, 8)
  THEN Ok([kind |-> "stats",
           total_players |-> OrZero(GetItem(stats, IntKey(0))),
           total_money_earned |-> OrZero(GetItem(stats, IntKey(1))),
           total_clicks |-> OrZero(GetItem(stats, IntKey(2))),
           highest_earnings |-> OrZero(GetItem(stats, IntKey(3))),
           most_clicks |-> OrZero(GetItem(stats, IntKey(4))),
           best_streak_global |-> OrZero(GetItem(stats, IntKey(5))),
           average_money |-> IntOfAvg(GetItem(stats, IntKey(6))),
           average_clicks |-> IntOfAvg(GetItem(stats, IntKey(7)))])
  ELSE ExceptException("KeyError")

\* round(x, 1) of x = num / den * 100, in tenths, den > 0: to the nearest
\* tenth, a tie going to the even one.
RoundTenths(num, den) ==
  LET n == num * 1000
      q == n \div den
      rem == n - q * den
  IN  IF 2 * rem < den THEN q
      ELSE IF 2 * rem > den THEN q + 1
      ELSE IF q % 2 = 0 THEN q ELSE q + 1

\* percentile = ((total - rank) / total * 100) if total > 0 else 0, rounded
\* to one decimal; the value is kept in tenths.
Percentile(total, rank) ==
  IF total > 0 THEN RoundTenths(total - rank, total) ELSE 0

\* total = total_result[0] if total_result else 0, the percentile and the
\* return of get_player_rank.
RankResponse(p, result, total_result) ==
  IF /\ Truthy(total_result) => HasKey(total_result, IntKey(0))
     /\ HasKey(result, IntKey(0))
     /\ HasKey(result, IntKey(1))
  THEN LET total == IF Truthy(total_result)
                    THEN GetItem(total_result, IntKey(0)) ELSE 0
           rank == GetItem(result, IntKey(0))
       IN  Ok([kind |-> "rank", player_id |-> p, rank |-> rank,
               total_players |-> total,
               percentile |-> Percentile(total, rank),
               earnings |-> GetItem(result, IntKey(1))])
  ELSE ExceptException("KeyError")

\* ------------------------------------------------------------- requests
\* One request per slot.  pc is the statement the handler executes next;
\* result, results, total_result and rowcount are the handler's locals and the
\* cursor's rowcount; pending holds the rows its open transaction has
\* written under its key and not yet committed; conn is its connection.
\* seen is a history field: lastWrite of the request's player when its first
\* statement ran, where lastWrite[p] records the last committed write to p's
\* row ("none" while p has no row, "init" for a row the table started with).
Idle ==
  [op |-> "none", pc |-> "idle", player_id |-> "", data |-> None,
   limit |-> 0, result |-> Unset, results |-> <<>>, total_result |-> Unset,
   rowcount |-> 0, pending |-> <<>>, conn |-> "none", resp |-> NoResponse,
   seen |-> [kind |-> "unset", data |-> None]]

\* finally: cur.close(); conn.close(), after the response (or the exception)
\* is decided.  Closing the connection ends its transaction.
Finally(rec, resp) ==
  [rec EXCEPT !.pc = "done", !.conn = "closed", !.resp = resp,
              !.pending = <<>>]

\* The row locks of request r are released when its transaction ends.
Unlock(r) == [p \in PlayerIds |-> IF lock[p] = r THEN 0 ELSE lock[p]]

FirstPc(op) ==
  CASE op = "get_player" -> "select"
    [] op = "save_player" -> "upsert"
    [] op = "reset_player" -> "update"
    [] op = "get_leaderboard" -> "lb_select"
    [] op = "get_global_stats" -> "stats_select"
    [] op = "get_player_rank" -> "rank_select"

\* The first two lines of every handler: conn = get_db_connection() and
\* cur = conn.cursor(), both before the try block.  A failed connect becomes
\* HTTP 503 and leaves no connection; a failed cursor() propagates with the
\* connection open, since no finally covers it.  The request's arguments are
\* drawn where its first statement reads them.  The slots are filled in
\* order: which slot a request takes makes no difference to it.
Begin(r, op) ==
  /\ req[r].pc = "idle"
  /\ \A q \in Reqs : q < r => req[q].pc # "idle"
  /\ LET rec == [Idle EXCEPT !.op = op]
     IN  \/ req' = [req EXCEPT ![r] =
                      [rec EXCEPT !.pc = "done",
                                  !.resp = HTTPException(503,
                                             "Database connection failed")]]
         \/ req' = [req EXCEPT ![r] =
                      [rec EXCEPT !.pc = "done", !.conn = "open",
                                  !.resp = HTTPException(500,
                                             "cursor() failed")]]
         \/ req' = [req EXCEPT ![r] =
                      [rec EXCEPT !.pc = FirstPc(op), !.conn = "open"]]
  /\ UNCHANGED <<db, lock, lastWrite>>

\* A statement of request r raises a database error (connection lost, query
\* failure).  The except block rolls back where the handler has one and the
\* finally block closes the connection, which discards the transaction in
\* the handlers that do not roll back.
DbError(r) ==
  /\ req[r].pc \notin {"idle", "done"}
  /\ req' = [req EXCEPT ![r] =
               Finally(req[r], ExceptException("DatabaseError"))]
  /\ lock' = Unlock(r)
  /\ UNCHANGED <<db, lastWrite>>

\* ----------------------------------------------------------- get_player
GetPlayerBegin(r) == Begin(r, "get_player")

\* The SELECT, and the return when the row exists.
GetPlayerSelect(r) ==
  /\ req[r].op = "get_player" /\ req[r].pc = "select"
  /\ \E p \in PlayerIds :
       LET result == SelectPlayer(db, p)
           got == [req[r] EXCEPT !.player_id = p, !.result = result,
                                 !.seen = lastWrite[p]]
       IN  req' = [req EXCEPT ![r] =
                     IF Truthy(result)
                     THEN Finally(got, GetPlayerResponse(result))
                     ELSE [got EXCEPT !.pc = "insert"]]
  /\ UNCHANGED <<db, lock, lastWrite>>

\* The INSERT ... RETURNING of the create branch.  It waits while another
\* transaction holds the key; a committed row under the key is a uniqueness
\* violation, which the except block turns into HTTP 500 after a rollback.
GetPlayerInsert(r) ==
  LET rec == req[r]
      p == rec.player_id
  IN  /\ rec.op = "get_player" /\ rec.pc = "insert"
      /\ lock[p] = 0
      /\ IF db[p] # <<>>
         THEN /\ req' = [req EXCEPT ![r] =
                           Finally(rec, ExceptException("UniqueViolation"))]
              /\ UNCHANGED lock
         ELSE /\ req' = [req EXCEPT ![r] =
                           [rec EXCEPT !.pc = "commit",
                                       !.pending = <<NewPlayerRow>>,
                                       !.rowcount = 1,
                                       !.result = PlayerRow(p, NewPlayerRow)]]
              /\ lock' = [lock EXCEPT ![p] = r]
      /\ UNCHANGED <<db, lastWrite>>

\* conn.commit() of the create branch, then the return.
GetPlayerCommit(r) ==
  LET rec == req[r]
      p == rec.player_id
  IN  /\ rec.op = "get_player" /\ rec.pc = "commit"
      /\ db' = [db EXCEPT ![p] = rec.pending]
      /\ lastWrite' = [lastWrite EXCEPT ![p] =
                         [kind |-> "create", data |-> NewPlayerRow]]
      /\ lock' = Unlock(r)
      /\ req' = [req EXCEPT ![r] =
                   Finally(rec,
                     IF Truthy(rec.result)
                     THEN GetPlayerResponse(rec.result)
                     ELSE ExceptException("Failed to create new player"))]

\* ---------------------------------------------------------- save_player
SavePlayerBegin(r) == Begin(r, "save_player")

\* The upsert.  It waits while another transaction holds the key.
SavePlayerUpsert(r) ==
  /\ req[r].op = "save_player" /\ req[r].pc = "upsert"
  /\ \E p \in PlayerIds, data \in PlayerData :
       /\ lock[p] = 0
       /\ req' = [req EXCEPT ![r] =
                    [req[r] EXCEPT !.player_id = p, !.data = data,
                                   !.pc = "commit", !.rowcount = 1,
                                   !.pending = UpsertRows(db[p], data),
                                   !.seen = lastWrite[p]]]
       /\ lock' = [lock EXCEPT ![p] = r]
  /\ UNCHANGED <<db, lastWrite>>

SavePlayerCommit(r) ==
  LET rec == req[r]
      p == rec.player_id
  IN  /\ rec.op = "save_player" /\ rec.pc = "commit"
      /\ db' = [db EXCEPT ![p] = rec.pending]
      /\ lastWrite' = [lastWrite EXCEPT ![p] =
                         [kind |-> "save", data |-> rec.data]]
      /\ lock' = Unlock(r)
      /\ req' = [req EXCEPT ![r] = Finally(rec, Ok([kind |-> "success"]))]

\* --------------------------------------------------------- reset_player
ResetPlayerBegin(r) == Begin(r, "reset_player")

\* The UPDATE.  With no committed row under the key it matches nothing and
\* takes no lock; otherwise it waits while another transaction holds the row.
ResetPlayerUpdate(r) ==
  /\ req[r].op = "reset_player" /\ req[r].pc = "update"
  /\ \E p \in PlayerIds :
       /\ db[p] = <<>> \/ lock[p] = 0
       /\ req' = [req EXCEPT ![r] =
                    [req[r] EXCEPT !.player_id = p, !.pc = "commit",
                                   !.rowcount = Len(db[p]),
                                   !.pending = ResetRows(db[p]),
                                   !.seen = lastWrite[p]]]
       /\ lock' = IF db[p] = <<>> THEN lock ELSE [lock EXCEPT ![p] = r]
  /\ UNCHANGED <<db, lastWrite>>

ResetPlayerCommit(r) ==
  LET rec == req[r]
      p == rec.player_id
  IN  /\ rec.op = "reset_player" /\ rec.pc = "commit"
      /\ db' = IF rec.rowcount = 0 THEN db
               ELSE [db EXCEPT ![p] = rec.pending]
      /\ lastWrite' = IF rec.rowcount = 0 THEN lastWrite
                      ELSE [lastWrite EXCEPT ![p] =
                              [kind |-> "reset", data |-> rec.pending[1]]]
      /\ lock' = Unlock(r)
      /\ req' = [req EXCEPT ![r] = Finally(rec, Ok([kind |-> "success"]))]

\* ------------------------------------------------------ get_leaderboard
GetLeaderboardBegin(r) == Begin(r, "get_leaderboard")

\* The ranking SELECT, fetchall() and the loop that builds the rows.
GetLeaderboardSelect(r) ==
  LET rec == req[r]
  IN  /\ rec.op = "get_leaderboard" /\ rec.pc = "lb_select"
      /\ \E limit \in Limits :
           \E results \in LeaderboardQuery(db, limit) :
             LET got == [rec EXCEPT !.limit = limit, !.results = results]
             IN  req' = [req EXCEPT ![r] =
                           IF LeaderboardLoopOk(results)
                           THEN [got EXCEPT !.pc = "lb_count"]
                           ELSE Finally(got, ExceptException("KeyError"))]
      /\ UNCHANGED <<db, lock, lastWrite>>

\* The COUNT(*) statement and the return.
GetLeaderboardCount(r) ==
  LET rec == req[r]
      total_result == CountQuery(db, "total_players")
  IN  /\ rec.op = "get_leaderboard" /\ rec.pc = "lb_count"
      /\ req' = [req EXCEPT ![r] =
                   Finally([rec EXCEPT !.total_result = total_result],
                           LeaderboardResponse(rec.results, total_result))]
      /\ UNCHANGED <<db, lock, lastWrite>>

\* ----------------------------------------------------- get_global_stats
GetGlobalStatsBegin(r) == Begin(r, "get_global_stats")

GetGlobalStatsSelect(r) ==
  LET rec == req[r]
      stats == StatsQuery(db)
  IN  /\ rec.op = "get_global_stats" /\ rec.pc = "stats_select"
      /\ req' = [req EXCEPT ![r] =
                   Finally([rec EXCEPT !.result = stats],
                           StatsResponse(stats))]
      /\ UNCHANGED <<db, lock, lastWrite>>

\* ------------------------------------------------------ get_player_rank
GetPlayerRankBegin(r) == Begin(r, "get_player_rank")

\* The ranking statement.  With no row for the player the handler raises
\* HTTPException(404) inside its own try block.
GetPlayerRankSelect(r) ==
  /\ req[r].op = "get_player_rank" /\ req[r].pc = "rank_select"
  /\ \E p \in PlayerIds :
       \E result \in RankQuery(db, p) :
         LET got == [req[r] EXCEPT !.player_id = p, !.result = result,
                                   !.seen = lastWrite[p]]
         IN  req' = [req EXCEPT ![r] =
                       IF Truthy(result)
                       THEN [got EXCEPT !.pc = "rank_count"]
                       ELSE Finally(got,
                              ExceptException(
                                "404: Player not found or no earnings"))]
  /\ UNCHANGED <<db, lock, lastWrite>>

\* The COUNT(*) statement, the percentile and the return.
GetPlayerRankCount(r) ==
  LET rec == req[r]
      total_result == CountQuery(db, "total")
  IN  /\ rec.op = "get_player_rank" /\ rec.pc = "rank_count"
      /\ req' = [req EXCEPT ![r] =
                   Finally([rec EXCEPT !.total_result = total_result],
                           RankResponse(rec.player_id, rec.result,
                                        total_result))]
      /\ UNCHANGED <<db, lock, lastWrite>>

\* ------------------------------------------------------- specifications
\* The table holds any rows earlier runs of the service left in it, at most
\* one per player_id; no request is in flight.
InitWith(rows) ==
  /\ db \in [PlayerIds -> {<<>>} \cup { <<d>> : d \in rows }]
  /\ lock = [p \in PlayerIds |-> 0]
  /\ req = [r \in Reqs |-> Idle]
  /\ lastWrite = [p \in PlayerIds |->
                    IF db[p] = <<>>
                    THEN [kind |-> "none", data |-> None]
                    ELSE [kind |-> "init", data |-> db[p][1]]]

\* The rows the table starts with where requests also write: no row, or one
\* with positive earnings and every field different from a new player's.
SeedData ==
  { d \in PlayerData :
      d.total_money > 0 /\ d.total_clicks = MaxClicks /\ d.best_streak > 0 }

Init == InitWith(SeedData)

Next ==
  \E r \in Reqs :
    \/ GetPlayerBegin(r)
    \/ GetPlayerSelect(r)
    \/ GetPlayerInsert(r)
    \/ GetPlayerCommit(r)
    \/ SavePlayerBegin(r)
    \/ SavePlayerUpsert(r)
    \/ SavePlayerCommit(r)
    \/ ResetPlayerBegin(r)
    \/ ResetPlayerUpdate(r)
    \/ ResetPlayerCommit(r)
    \/ GetLeaderboardBegin(r)
    \/ GetLeaderboardSelect(r)
    \/ GetLeaderboardCount(r)
    \/ GetGlobalStatsBegin(r)
    \/ GetGlobalStatsSelect(r)
    \/ GetPlayerRankBegin(r)
    \/ GetPlayerRankSelect(r)
    \/ GetPlayerRankCount(r)
    \/ DbError(r)

Spec == Init /\ [][Next]_vars

\* The aggregate queries alone, over a table no request writes.
NextRead ==
  \E r \in Reqs :
    \/ GetLeaderboardBegin(r)
    \/ GetLeaderboardSelect(r)
    \/ GetLeaderboardCount(r)
    \/ GetGlobalStatsBegin(r)
    \/ GetGlobalStatsSelect(r)
    \/ GetPlayerRankBegin(r)
    \/ GetPlayerRankSelect(r)
    \/ GetPlayerRankCount(r)
    \/ DbError(r)

InitRead == InitWith(PlayerData)

SpecRead == InitRead /\ [][NextRead]_vars

\* --------------------------------------------------------------- claims
Done(r) == req[r].pc = "done"

\* Request r met no injected failure: the connect and cursor() calls worked
\* and no statement raised a database error.
NoFault(r) ==
  req[r].resp.detail \notin
    {"Database connection failed", "cursor() failed", "DatabaseError"}

AsSet(a) == { a[i] : i \in DOMAIN a }

\* C1: get_player_rank for a player outside the positive-earnings population
\* (no row, or total_money <= 0) answers 404, not 500.
C1_RankAbsentIsNotFound ==
  \A r \in Reqs :
    (req[r].op = "get_player_rank" /\ Done(r) /\ req[r].result.kind = "none")
      => req[r].resp.status = 404

\* C2: two get_player requests for one player_id that both found no row on
\* their lookup both succeed, and one row exists for the id afterwards.
C2_RacingCreateFallsBack ==
  \A r1, r2 \in Reqs :
    (/\ r1 # r2
     /\ req[r1].op = "get_player" /\ req[r2].op = "get_player"
     /\ Done(r1) /\ Done(r2) /\ NoFault(r1) /\ NoFault(r2)
     /\ req[r1].seen.kind = "none" /\ req[r2].seen.kind = "none"
     /\ req[r1].player_id = req[r2].player_id)
      => /\ req[r1].resp.status = 200
         /\ req[r2].resp.status = 200
         /\ Len(db[req[r1].player_id]) = 1

\* C3: a get_player whose lookup follows a committed save of the same player,
\* with no write in between, returns exactly the saved fields (the arrays
\* with the same members).
C3_SaveThenFetchRoundTrip ==
  \A r \in Reqs :
    (req[r].op = "get_player" /\ Done(r) /\ NoFault(r)
       /\ req[r].seen.kind = "save")
      => /\ req[r].resp.status = 200
         /\ req[r].resp.body.total_money = req[r].seen.data.total_money
         /\ req[r].resp.body.total_clicks = req[r].seen.data.total_clicks
         /\ req[r].resp.body.best_streak = req[r].seen.data.best_streak
         /\ AsSet(req[r].resp.body.owned_power_ups) =
              AsSet(req[r].seen.data.owned_power_ups)
         /\ AsSet(req[r].resp.body.achievements) =
              AsSet(req[r].seen.data.achievements)

\* C4: get_player for a player with no row succeeds and returns the all-zero
\* record with empty arrays, and so does a get_player that follows the
\* creation with no write in between; one row is stored.
C4_FetchOrCreateDefaults ==
  \A r \in Reqs :
    (/\ req[r].op = "get_player" /\ Done(r) /\ NoFault(r)
     /\ req[r].seen.kind \in {"none", "create"}
     /\ req[r].resp.detail # "UniqueViolation")
      => /\ req[r].resp.status = 200
         /\ req[r].resp.body =
              [kind |-> "player", player_id |-> req[r].player_id,
               total_money |-> 0, total_clicks |-> 0, best_streak |-> 0,
               owned_power_ups |-> <<>>, achievements |-> <<>>]

\* C5: reset_player's UPDATE changes no committed row and matches the row of
\* its player exactly when that row exists; its commit reports success, and
\* then a matched row has total_money, total_clicks and best_streak 0 and
\* both arrays empty and is still the one row of its player, an unmatched
\* player gets no row from it, and every other player's rows are unchanged.
C5_Reset ==
  [][\A r \in Reqs :
       /\ (req[r].op = "reset_player" /\ req[r].pc = "update"
             /\ req'[r].pc = "commit")
            => /\ db' = db
               /\ req'[r].rowcount = Len(db[req'[r].player_id])
       /\ (req[r].op = "reset_player" /\ req[r].pc = "commit"
             /\ req'[r].pc = "done" /\ req'[r].resp.detail # "DatabaseError")
            => LET p == req[r].player_id
               IN  /\ req'[r].resp.status = 200
                   /\ req[r].rowcount > 0 =>
                        db'[p] =
                          <<[total_money |-> 0, total_clicks |-> 0,
                             best_streak |-> 0, owned_power_ups |-> <<>>,
                             achievements |-> <<>>]>>
                   /\ req[r].rowcount = 0 => db'[p] = db[p]
                   /\ \A q \in PlayerIds \ {p} : db'[q] = db[q]]_vars

\* One reset has zeroed a row whose fields were all non-zero and another has
\* reported success for a player that has no row.
C5_Witness ==
  \E r1, r2 \in Reqs :
    /\ req[r1].op = "reset_player" /\ Done(r1)
    /\ req[r1].resp.status = 200 /\ req[r1].rowcount = 1
    /\ req[r1].seen.kind = "init"
    /\ req[r1].seen.data.best_streak > 0
    /\ req[r1].seen.data.achievements # <<>>
    /\ db[req[r1].player_id] = <<NewPlayerRow>>
    /\ req[r2].op = "reset_player" /\ Done(r2)
    /\ req[r2].resp.status = 200 /\ req[r2].rowcount = 0
    /\ req[r2].player_id # req[r1].player_id
    /\ db[req[r2].player_id] = <<>>

\* C6: a leaderboard request answers with at most limit rows, all with
\* total_money > 0, in (total_money desc, total_clicks desc) order, the row at
\* position i carrying rank i, and the rows are the top min(limit, population)
\* players of the positive-earnings population.
C6_Leaderboard ==
  \A r \in Reqs :
    (req[r].op = "get_leaderboard" /\ Done(r) /\ NoFault(r))
      => /\ req[r].resp.status = 200
         /\ LET rows == req[r].resp.body.leaderboard
                shown == { rows[i].player_id : i \in DOMAIN rows }
            IN  /\ Len(rows) = Min(req[r].limit, Cardinality(Positive(db)))
                /\ \A i \in DOMAIN rows :
                     /\ rows[i].rank = i
                     /\ rows[i].total_money > 0
                     /\ db[rows[i].player_id] # <<>>
                     /\ db[rows[i].player_id][1].total_money =
                          rows[i].total_money
                     /\ db[rows[i].player_id][1].total_clicks =
                          rows[i].total_clicks
                /\ \A i, j \in DOMAIN rows :
                     i < j => ~Before(rows[j], rows[i])
                /\ \A e \in Positive(db) :
                     e[1] \notin shown =>
                       \A i \in DOMAIN rows : ~Before(RowOf(db, e), rows[i])

\* C7: over one table state, the rank the rank statement gives a player is
\* the position of that player's row in the rows the leaderboard statement
\* gives for a limit that covers the whole positive-earnings population.
C7_RankMatchesLeaderboard ==
  \A r1, r2 \in Reqs :
    (/\ req[r1].op = "get_player_rank" /\ req[r1].result.kind = "row"
     /\ req[r2].op = "get_leaderboard" /\ NoFault(r2)
     /\ req[r2].pc \in {"lb_count", "done"}
     /\ req[r2].limit >= Cardinality(Positive(db)))
      => \E i \in DOMAIN req[r2].results :
           /\ Column(req[r2].results[i], "player_id") = req[r1].player_id
           /\ Column(req[r1].result, "rank") = i

\* C8: a request that has ended holds no open connection.
C8_ConnectionReleased ==
  \A r \in Reqs : Done(r) => req[r].conn # "open"

\* C9: in every step, every player_id has at most one committed row, and a
\* player_id that had one before the step has exactly one after it.
C9_RowsPersistUnique ==
  [][\A p \in PlayerIds :
       /\ Len(db'[p]) <= 1
       /\ Len(db[p]) = 1 => Len(db'[p]) = 1]_vars

\* A get_player has created and committed a player's row, a later write to
\* that row has failed and been rolled back, and the row is still there.
C9_Witness ==
  \E r1, r2 \in Reqs :
    /\ r1 # r2
    /\ req[r1].op = "get_player" /\ Done(r1) /\ NoFault(r1)
    /\ req[r1].seen.kind = "none"
    /\ req[r1].resp.detail # "UniqueViolation"
    /\ req[r2].op \in {"save_player", "reset_player"} /\ Done(r2)
    /\ req[r2].resp.detail = "DatabaseError"
    /\ req[r2].player_id = req[r1].player_id
    /\ req[r2].seen.kind = "create"
    /\ Len(db[req[r1].player_id]) = 1

====
